---- MODULE Spec2Model ----
(***************************************************************************)
(* The four-step rotation handler of the RDS credential secret             *)
(* (createSecret, setSecret, testSecret, finishSecret), the versioned      *)
(* secret it reads and writes, and the database whose user password it     *)
(* alters.  One invocation of the handler is one action; an invocation may *)
(* be cut short (timeout of the caller) after any of its awaited calls, or *)
(* hit a failing connect or a failing statement.                           *)
(***************************************************************************)
EXTENDS Integers, FiniteSets, Sequences, TLC

\* ---------------------------------------------------------------- bounds
MaxTokens == 2
MaxPasswords == 2

TokenNames == <<"tok1", "tok2", "tok3", "tok4">>
PasswordNames == <<"gen1", "gen2", "gen3", "gen4">>

\* request tokens the trigger may deliver, and the passwords the generator may draw
Tokens == {TokenNames[i] : i \in 1..MaxTokens}
Passwords == {PasswordNames[i] : i \in 1..MaxPasswords}

\* the version the secret was provisioned with, and its password
InitialVersion == "ver0"
OldPassword == "old1"
VersionIds == Tokens \cup {InitialVersion}

Stages == {"AWSCURRENT", "AWSPENDING"}
Steps == {"createSecret", "setSecret", "testSecret", "finishSecret"}
OtherSteps == {"rollbackSecret"}

\* ------------------------------------------------------------ SecretJson
Undefined == "undefined"
NoString == <<>>
FieldSet == {"username", "password", "host", "port", "dbname"}

\* JSON.stringify: the text holds the members of the object that are defined
JSONstringify(obj) == [k \in {f \in FieldSet : obj[f] # Undefined} |-> obj[k]]

\* JSON.parse: a member that is not in the text reads as undefined
JSONparse(text) == [k \in FieldSet |-> IF k \in DOMAIN text THEN text[k] ELSE Undefined]

\* { ...current, password: newPassword }
WithPassword(current, newPassword) == [current EXCEPT !["password"] = newPassword]

\* the cluster the secret was generated for: its endpoint, and its master user
DbHost == "db"
DbPort == "5432"
DbName == "postgres"
DbUser == "postgresadmin"

InitialSecret ==
  [username |-> DbUser, password |-> OldPassword, host |-> DbHost,
   port |-> DbPort, dbname |-> Undefined]

\* ------------------------------------------------------------- the store
\* The secret is a set of versions, each with a SecretString and a set of
\* staging labels.  The store is the service behind secretsClient.send: what
\* its two commands do is taken from the contract the handler relies on
\* (get by stage label; put under a version id with stage labels; a label
\* is on one version at a time), not from code of the handler.
NoVersion == [exists |-> FALSE, str |-> NoString, stages |-> {}]

InitialStore ==
  [v \in VersionIds |->
     IF v = InitialVersion
     THEN [exists |-> TRUE, str |-> JSONstringify(InitialSecret), stages |-> {"AWSCURRENT"}]
     ELSE NoVersion]

Holders(st, stage) == {v \in VersionIds : st[v].exists /\ stage \in st[v].stages}

\* GetSecretValue by staging label: the version that carries the label, with
\* its SecretString and the list of its labels.  A call that names no stage
\* (finishSecret) asks for AWSCURRENT.
GetSecretValue(st, stage) ==
  IF Holders(st, stage) = {}
  THEN [err |-> "NotFound", id |-> InitialVersion, SecretString |-> NoString,
        VersionStages |-> {}]
  ELSE LET v == CHOOSE x \in Holders(st, stage) : TRUE
       IN [err |-> "ok", id |-> v, SecretString |-> st[v].str,
           VersionStages |-> st[v].stages]

\* PutSecretValue that attaches the labels and leaves them on the other versions
PutSecretValueNoMove(st, token, secretString, stages) ==
  IF secretString = NoString /\ ~st[token].exists
  THEN [err |-> "InvalidRequest", store |-> st]
  ELSE [err |-> "ok",
        store |->
          [st EXCEPT ![token] =
             [exists |-> TRUE,
              str |-> IF secretString # NoString THEN secretString ELSE st[token].str,
              stages |-> st[token].stages \cup stages]]]

\* PutSecretValue.  With a SecretString, version `token` is created or
\* overwritten; without one the call only reassigns labels, and there must be
\* a version `token` to take them.  The given staging labels are attached to
\* version `token`, and a label attached to it is removed from every other
\* version.
PutSecretValue(st, token, secretString, stages) ==
  IF secretString = NoString /\ ~st[token].exists
  THEN [err |-> "InvalidRequest", store |-> st]
  ELSE [err |-> "ok",
        store |->
          [v \in VersionIds |->
             IF v = token
             THEN [exists |-> TRUE,
                   str |-> IF secretString # NoString THEN secretString ELSE st[v].str,
                   stages |-> st[v].stages \cup stages]
             ELSE [st[v] EXCEPT !.stages = @ \ stages]]]

\* ---------------------------------------------------------- the database
DefaultPort == "5432"
DefaultDatabase == "postgres"

\* new Client({...}) of setSecret and testSecret
ClientOf(json) ==
  [host |-> json.host,
   port |-> IF json.port # Undefined THEN json.port ELSE DefaultPort,
   user |-> json.username,
   password |-> json.password,
   database |-> IF json.dbname # Undefined THEN json.dbname ELSE DefaultDatabase]

\* client.connect(): refused or timed out (fault), else the server checks the login
Connect(client, dbpw, fault) ==
  IF fault = "ConnectionError" \/ client.host # DbHost \/ client.port # DbPort
  THEN "ConnectionError"
  ELSE IF client.user # DbUser \/ client.password # dbpw \/ client.database # DbName
  THEN "AuthenticationError"
  ELSE "ok"

\* client.query(`ALTER USER ${username} WITH PASSWORD '${password}'`)
AlterUser(username, password, dbpw, fault) ==
  IF fault = "StatementError" \/ username # DbUser
  THEN [err |-> "StatementError", db |-> dbpw]
  ELSE [err |-> "ok", db |-> password]

\* client.query('SELECT 1')
Select1(fault) == IF fault = "StatementError" THEN "StatementError" ELSE "ok"

\* ------------------------------------------------- generateSecurePassword
\* A string is the sequence of its characters.  crypto.getRandomValues fills a
\* Uint32Array; the draws of the model are taken from RandValues, which holds
\* values below and above the moduli they meet, so that `%` both keeps and wraps.
MaxLength == 5
MaxRands == 2
RandValues == <<7, 1000, 65535, 77>>
Rands == {RandValues[i] : i \in 1..MaxRands}
Lengths == (0 - 1)..MaxLength

upper == <<"A", "B", "C", "D", "E", "F", "G", "H", "I", "J", "K", "L", "M",
           "N", "O", "P", "Q", "R", "S", "T", "U", "V", "W", "X", "Y", "Z">>
lower == <<"a", "b", "c", "d", "e", "f", "g", "h", "i", "j", "k", "l", "m",
           "n", "o", "p", "q", "r", "s", "t", "u", "v", "w", "x", "y", "z">>
digits == <<"0", "1", "2", "3", "4", "5", "6", "7", "8", "9">>
symbols == <<"!", "@", "#", "$", "%", "^", "&", "*", "(", ")", "_", "-", "+", "=">>
allChars == upper \o lower \o digits \o symbols

\* charset[rand[0] % charset.length], indices from 0 in the source
getRandomChar(charset, rand) == charset[(rand % Len(charset)) + 1]

guaranteedChars(picks) ==
  <<getRandomChar(upper, picks[1]), getRandomChar(lower, picks[2]),
    getRandomChar(digits, picks[3]), getRandomChar(symbols, picks[4])>>

\* Array.from(randomIndexes, (x) => allChars[x % allChars.length])
remainingChars(randomIndexes) ==
  [k \in 1..Len(randomIndexes) |-> allChars[(randomIndexes[k] % Len(allChars)) + 1]]

\* an exchange that copies passwordArray[j] over passwordArray[i] and loses
\* the character that was at i
SwapCopy(passwordArray, i, j) ==
  [passwordArray EXCEPT ![i + 1] = passwordArray[j + 1]]

\* [passwordArray[i], passwordArray[j]] = [passwordArray[j], passwordArray[i]]
Swap(passwordArray, i, j) ==
  [passwordArray EXCEPT ![i + 1] = passwordArray[j + 1], ![j + 1] = passwordArray[i + 1]]

\* the Fisher-Yates loop from index i down to 1; swaps[i] is the draw of the
\* iteration at index i
RECURSIVE FisherYates(_, _, _)
FisherYates(passwordArray, i, swaps) ==
  IF i > 0
  THEN FisherYates(Swap(passwordArray, i, swaps[i] % (i + 1)), i - 1, swaps)
  ELSE passwordArray

MinLength == 4
generateSecurePassword(length, picks, randomIndexes, swaps) ==
  IF length < MinLength
  THEN [err |-> "InvalidLength", password |-> <<>>]
  ELSE LET passwordArray == guaranteedChars(picks) \o remainingChars(randomIndexes)
       IN [err |-> "ok",
           password |-> FisherYates(passwordArray, Len(passwordArray) - 1, swaps)]

\* ------------------------------------------------------------ the handler
\* The longest step, setSecret, awaits five calls; an invocation given
\* cut = k is cancelled by its caller after k awaited calls have completed,
\* and runs to its end when k is the number of its calls or more.
MaxSteps == 5
Faults == {"none", "ConnectionError", "StatementError"}

\* what an invocation leaves behind: the store, the database password, how it
\* ended, and the calls it made
Outcome(st, db, result, storeCalls, storeWrites, opened, closed, queries) ==
  [store |-> st, db |-> db, result |-> result, storeCalls |-> storeCalls,
   storeWrites |-> storeWrites, opened |-> opened, closed |-> closed,
   queries |-> queries]

\* Every SecretString of the model is the provisioned one or one written by
\* createSecret, so JSON.parse does not throw.
getSecretJson(st, stage) ==
  LET result == GetSecretValue(st, stage)
  IN IF result.err # "ok" THEN [err |-> result.err, json |-> InitialSecret]
     ELSE IF result.SecretString = NoString
     THEN [err |-> "NoSecretString", json |-> InitialSecret]
     ELSE [err |-> "ok", json |-> JSONparse(result.SecretString)]

createSecret(token, newPassword, fault, cut, s) ==
  LET current == getSecretJson(s.store, "AWSCURRENT")
      newSecret == WithPassword(current.json, newPassword)
      put == PutSecretValue(s.store, token, JSONstringify(newSecret), {"AWSPENDING"})
  IN IF cut < 1 THEN Outcome(s.store, s.db, "cancelled", 0, 0, 0, 0, 0)
     ELSE IF current.err # "ok" THEN Outcome(s.store, s.db, current.err, 1, 0, 0, 0, 0)
     ELSE IF cut < 2 THEN Outcome(s.store, s.db, "cancelled", 1, 0, 0, 0, 0)
     ELSE Outcome(put.store, s.db, put.err, 2, 1, 0, 0, 0)

\* setSecret that applies the pending password only when the version the
\* event's token names is the one that holds AWSPENDING
setSecretOfToken(token, fault, cut, s) ==
  LET current == getSecretJson(s.store, "AWSCURRENT")
      pending == getSecretJson(s.store, "AWSPENDING")
      conn == Connect(ClientOf(current.json), s.db, fault)
      alter == AlterUser(pending.json.username, pending.json.password, s.db, fault)
  IN IF cut < 1 THEN Outcome(s.store, s.db, "cancelled", 0, 0, 0, 0, 0)
     ELSE IF current.err # "ok" THEN Outcome(s.store, s.db, current.err, 1, 0, 0, 0, 0)
     ELSE IF cut < 2 THEN Outcome(s.store, s.db, "cancelled", 1, 0, 0, 0, 0)
     ELSE IF pending.err # "ok" THEN Outcome(s.store, s.db, pending.err, 2, 0, 0, 0, 0)
     ELSE IF token \notin Holders(s.store, "AWSPENDING")
     THEN Outcome(s.store, s.db, "NotFound", 2, 0, 0, 0, 0)
     ELSE IF cut < 3 THEN Outcome(s.store, s.db, "cancelled", 2, 0, 0, 0, 0)
     ELSE IF conn # "ok" THEN Outcome(s.store, s.db, conn, 2, 0, 0, 0, 0)
     ELSE IF cut < 4 THEN Outcome(s.store, s.db, "cancelled", 2, 0, 1, 0, 0)
     ELSE IF alter.err # "ok" THEN Outcome(s.store, s.db, alter.err, 2, 0, 1, 1, 1)
     ELSE IF cut < 5 THEN Outcome(s.store, alter.db, "cancelled", 2, 0, 1, 0, 1)
     ELSE Outcome(s.store, alter.db, "ok", 2, 0, 1, 1, 1)

\* setSecret that alters the user to the password of AWSCURRENT
setSecretCurrentPassword(token, fault, cut, s) ==
  LET current == getSecretJson(s.store, "AWSCURRENT")
      pending == getSecretJson(s.store, "AWSPENDING")
      conn == Connect(ClientOf(current.json), s.db, fault)
      alter == AlterUser(pending.json.username, current.json.password, s.db, fault)
  IN IF cut < 1 THEN Outcome(s.store, s.db, "cancelled", 0, 0, 0, 0, 0)
     ELSE IF current.err # "ok" THEN Outcome(s.store, s.db, current.err, 1, 0, 0, 0, 0)
     ELSE IF cut < 2 THEN Outcome(s.store, s.db, "cancelled", 1, 0, 0, 0, 0)
     ELSE IF pending.err # "ok" THEN Outcome(s.store, s.db, pending.err, 2, 0, 0, 0, 0)
     ELSE IF cut < 3 THEN Outcome(s.store, s.db, "cancelled", 2, 0, 0, 0, 0)
     ELSE IF conn # "ok" THEN Outcome(s.store, s.db, conn, 2, 0, 0, 0, 0)
     ELSE IF cut < 4 THEN Outcome(s.store, s.db, "cancelled", 2, 0, 1, 0, 0)
     ELSE IF alter.err # "ok" THEN Outcome(s.store, s.db, alter.err, 2, 0, 1, 1, 1)
     ELSE IF cut < 5 THEN Outcome(s.store, alter.db, "cancelled", 2, 0, 1, 0, 1)
     ELSE Outcome(s.store, alter.db, "ok", 2, 0, 1, 1, 1)

\* setSecret that connects with the AWSCURRENT credentials before it reads AWSPENDING
setSecretConnectFirst(token, fault, cut, s) ==
  LET current == getSecretJson(s.store, "AWSCURRENT")
      pending == getSecretJson(s.store, "AWSPENDING")
      conn == Connect(ClientOf(current.json), s.db, fault)
      alter == AlterUser(pending.json.username, pending.json.password, s.db, fault)
  IN IF cut < 1 THEN Outcome(s.store, s.db, "cancelled", 0, 0, 0, 0, 0)
     ELSE IF current.err # "ok" THEN Outcome(s.store, s.db, current.err, 1, 0, 0, 0, 0)
     ELSE IF cut < 2 THEN Outcome(s.store, s.db, "cancelled", 1, 0, 0, 0, 0)
     ELSE IF conn # "ok" THEN Outcome(s.store, s.db, conn, 1, 0, 0, 0, 0)
     ELSE IF cut < 3 THEN Outcome(s.store, s.db, "cancelled", 1, 0, 1, 0, 0)
     ELSE IF pending.err # "ok" THEN Outcome(s.store, s.db, pending.err, 2, 0, 1, 1, 0)
     ELSE IF cut < 4 THEN Outcome(s.store, s.db, "cancelled", 2, 0, 1, 0, 0)
     ELSE IF alter.err # "ok" THEN Outcome(s.store, s.db, alter.err, 2, 0, 1, 1, 1)
     ELSE IF cut < 5 THEN Outcome(s.store, alter.db, "cancelled", 2, 0, 1, 0, 1)
     ELSE Outcome(s.store, alter.db, "ok", 2, 0, 1, 1, 1)

setSecret(token, fault, cut, s) ==
  LET current == getSecretJson(s.store, "AWSCURRENT")
      pending == getSecretJson(s.store, "AWSPENDING")
      conn == Connect(ClientOf(current.json), s.db, fault)
      alter == AlterUser(pending.json.username, pending.json.password, s.db, fault)
  IN IF cut < 1 THEN Outcome(s.store, s.db, "cancelled", 0, 0, 0, 0, 0)
     ELSE IF current.err # "ok" THEN Outcome(s.store, s.db, current.err, 1, 0, 0, 0, 0)
     ELSE IF cut < 2 THEN Outcome(s.store, s.db, "cancelled", 1, 0, 0, 0, 0)
     ELSE IF pending.err # "ok" THEN Outcome(s.store, s.db, pending.err, 2, 0, 0, 0, 0)
     ELSE IF cut < 3 THEN Outcome(s.store, s.db, "cancelled", 2, 0, 0, 0, 0)
     ELSE IF conn # "ok" THEN Outcome(s.store, s.db, conn, 2, 0, 0, 0, 0)
     ELSE IF cut < 4 THEN Outcome(s.store, s.db, "cancelled", 2, 0, 1, 0, 0)
     ELSE IF alter.err # "ok" THEN Outcome(s.store, s.db, alter.err, 2, 0, 1, 1, 1)
     ELSE IF cut < 5 THEN Outcome(s.store, alter.db, "cancelled", 2, 0, 1, 0, 1)
     ELSE Outcome(s.store, alter.db, "ok", 2, 0, 1, 1, 1)

\* testSecret that ends the session only after a probe that succeeded
testSecretNoFinally(token, fault, cut, s) ==
  LET pending == getSecretJson(s.store, "AWSPENDING")
      conn == Connect(ClientOf(pending.json), s.db, fault)
      probe == Select1(fault)
  IN IF cut < 1 THEN Outcome(s.store, s.db, "cancelled", 0, 0, 0, 0, 0)
     ELSE IF pending.err # "ok" THEN Outcome(s.store, s.db, pending.err, 1, 0, 0, 0, 0)
     ELSE IF cut < 2 THEN Outcome(s.store, s.db, "cancelled", 1, 0, 0, 0, 0)
     ELSE IF conn # "ok" THEN Outcome(s.store, s.db, conn, 1, 0, 0, 0, 0)
     ELSE IF cut < 3 THEN Outcome(s.store, s.db, "cancelled", 1, 0, 1, 0, 0)
     ELSE IF probe # "ok" THEN Outcome(s.store, s.db, probe, 1, 0, 1, 0, 1)
     ELSE IF cut < 4 THEN Outcome(s.store, s.db, "cancelled", 1, 0, 1, 0, 1)
     ELSE Outcome(s.store, s.db, "ok", 1, 0, 1, 1, 1)

\* testSecret whose catch block logs the failed probe and does not rethrow it
testSecretSwallow(token, fault, cut, s) ==
  LET pending == getSecretJson(s.store, "AWSPENDING")
      conn == Connect(ClientOf(pending.json), s.db, fault)
      probe == Select1(fault)
  IN IF cut < 1 THEN Outcome(s.store, s.db, "cancelled", 0, 0, 0, 0, 0)
     ELSE IF pending.err # "ok" THEN Outcome(s.store, s.db, pending.err, 1, 0, 0, 0, 0)
     ELSE IF cut < 2 THEN Outcome(s.store, s.db, "cancelled", 1, 0, 0, 0, 0)
     ELSE IF conn # "ok" THEN Outcome(s.store, s.db, conn, 1, 0, 0, 0, 0)
     ELSE IF cut < 3 THEN Outcome(s.store, s.db, "cancelled", 1, 0, 1, 0, 0)
     ELSE IF probe # "ok" THEN Outcome(s.store, s.db, "ok", 1, 0, 1, 1, 1)
     ELSE IF cut < 4 THEN Outcome(s.store, s.db, "cancelled", 1, 0, 1, 0, 1)
     ELSE Outcome(s.store, s.db, "ok", 1, 0, 1, 1, 1)

testSecret(token, fault, cut, s) ==
  LET pending == getSecretJson(s.store, "AWSPENDING")
      conn == Connect(ClientOf(pending.json), s.db, fault)
      probe == Select1(fault)
  IN IF cut < 1 THEN Outcome(s.store, s.db, "cancelled", 0, 0, 0, 0, 0)
     ELSE IF pending.err # "ok" THEN Outcome(s.store, s.db, pending.err, 1, 0, 0, 0, 0)
     ELSE IF cut < 2 THEN Outcome(s.store, s.db, "cancelled", 1, 0, 0, 0, 0)
     ELSE IF conn # "ok" THEN Outcome(s.store, s.db, conn, 1, 0, 0, 0, 0)
     ELSE IF cut < 3 THEN Outcome(s.store, s.db, "cancelled", 1, 0, 1, 0, 0)
     ELSE IF probe # "ok" THEN Outcome(s.store, s.db, probe, 1, 0, 1, 1, 1)
     ELSE IF cut < 4 THEN Outcome(s.store, s.db, "cancelled", 1, 0, 1, 0, 1)
     ELSE Outcome(s.store, s.db, "ok", 1, 0, 1, 1, 1)

\* Array.isArray(result.VersionStages): the store answers with the list of the
\* labels of the version it returns
IsArray(versionStages) == versionStages \in SUBSET Stages

\* metadata[token]?.includes('AWSCURRENT'), metadata being {} for a list
AlreadyCurrent(versionStages, token) ==
  IF IsArray(versionStages) THEN FALSE
  ELSE token \in DOMAIN versionStages /\ "AWSCURRENT" \in versionStages[token]

\* finishSecret that also reads the AWSPENDING version before it promotes
finishSecretReadsPending(token, fault, cut, s) ==
  LET result == GetSecretValue(s.store, "AWSCURRENT")
      pending == GetSecretValue(s.store, "AWSPENDING")
      put == PutSecretValue(s.store, token, NoString, {"AWSCURRENT"})
  IN IF cut < 1 THEN Outcome(s.store, s.db, "cancelled", 0, 0, 0, 0, 0)
     ELSE IF result.err # "ok" THEN Outcome(s.store, s.db, result.err, 1, 0, 0, 0, 0)
     ELSE IF AlreadyCurrent(result.VersionStages, token)
     THEN Outcome(s.store, s.db, "ok", 1, 0, 0, 0, 0)
     ELSE IF pending.err # "ok" THEN Outcome(s.store, s.db, pending.err, 2, 0, 0, 0, 0)
     ELSE IF cut < 2 THEN Outcome(s.store, s.db, "cancelled", 2, 0, 0, 0, 0)
     ELSE Outcome(put.store, s.db, put.err, 3, 1, 0, 0, 0)

\* finishSecret that asks for both labels on the promoted version
finishSecretBothStages(token, fault, cut, s) ==
  LET result == GetSecretValue(s.store, "AWSCURRENT")
      put == PutSecretValue(s.store, token, NoString, {"AWSCURRENT", "AWSPENDING"})
  IN IF cut < 1 THEN Outcome(s.store, s.db, "cancelled", 0, 0, 0, 0, 0)
     ELSE IF result.err # "ok" THEN Outcome(s.store, s.db, result.err, 1, 0, 0, 0, 0)
     ELSE IF AlreadyCurrent(result.VersionStages, token)
     THEN Outcome(s.store, s.db, "ok", 1, 0, 0, 0, 0)
     ELSE IF cut < 2 THEN Outcome(s.store, s.db, "cancelled", 1, 0, 0, 0, 0)
     ELSE Outcome(put.store, s.db, put.err, 2, 1, 0, 0, 0)

finishSecret(token, fault, cut, s) ==
  LET result == GetSecretValue(s.store, "AWSCURRENT")
      put == PutSecretValue(s.store, token, NoString, {"AWSCURRENT"})
  IN IF cut < 1 THEN Outcome(s.store, s.db, "cancelled", 0, 0, 0, 0, 0)
     ELSE IF result.err # "ok" THEN Outcome(s.store, s.db, result.err, 1, 0, 0, 0, 0)
     ELSE IF AlreadyCurrent(result.VersionStages, token)
     THEN Outcome(s.store, s.db, "ok", 1, 0, 0, 0, 0)
     ELSE IF cut < 2 THEN Outcome(s.store, s.db, "cancelled", 1, 0, 0, 0, 0)
     ELSE Outcome(put.store, s.db, put.err, 2, 1, 0, 0, 0)

\* handler whose switch has no default case and treats every other step as
\* finishSecret
handlerNoDefault(step, token, newPassword, fault, cut, s) ==
  CASE step = "createSecret" -> createSecret(token, newPassword, fault, cut, s)
    [] step = "setSecret" -> setSecret(token, fault, cut, s)
    [] step = "testSecret" -> testSecret(token, fault, cut, s)
    [] OTHER -> finishSecret(token, fault, cut, s)

handler(step, token, newPassword, fault, cut, s) ==
  CASE step = "createSecret" -> createSecret(token, newPassword, fault, cut, s)
    [] step = "setSecret" -> setSecret(token, fault, cut, s)
    [] step = "testSecret" -> testSecret(token, fault, cut, s)
    [] step = "finishSecret" -> finishSecret(token, fault, cut, s)
    [] OTHER -> Outcome(s.store, s.db, "UnknownStep", 0, 0, 0, 0, 0)

\* ------------------------------------------------------------- the state
VARIABLES
  store,        \* the versions of the secret: SecretString and staging labels
  dbPassword,   \* the password the database accepts for DbUser
  event,        \* the last event delivered, and how its invocation was disturbed
  ret,          \* how the last invocation ended and the calls it made
  pre,          \* what the last invocation started from and what it changed
  applied,      \* the versions whose password a successful setSecret has applied
  run,          \* progress of an undisturbed create, set, test, finish sequence
  gen           \* a call of generateSecurePassword: its length, its draws, its result

vars == <<store, dbPassword, event, ret, pre, applied, run, gen>>

\* the number of calls a step awaits
Calls(step) ==
  CASE step = "createSecret" -> 2
    [] step = "setSecret" -> 5
    [] step = "testSecret" -> 4
    [] step = "finishSecret" -> 2
    [] OTHER -> 0

\* the failures of the database a step can meet
FaultsOf(step) == IF step \in {"setSecret", "testSecret"} THEN Faults ELSE {"none"}

\* an invocation is undisturbed, or meets one failure, or is cancelled after k calls
Disturbances(step) ==
  {[fault |-> f, cut |-> MaxSteps] : f \in FaultsOf(step)}
    \cup {[fault |-> "none", cut |-> k] : k \in 0..(Calls(step) - 1)}

Undisturbed(d) == d.fault = "none" /\ d.cut = MaxSteps
DisturbanceName(d) == IF d.cut < MaxSteps THEN "cancelled" ELSE d.fault

Order == <<"createSecret", "setSecret", "testSecret", "finishSecret">>
NoRun == [n |-> 0, token |-> "none", old |-> "none"]

Current == [store |-> store, db |-> dbPassword]
PasswordOf(st, stage) ==
  LET r == getSecretJson(st, stage) IN IF r.err = "ok" THEN r.json.password ELSE Undefined

\* a probe with the credentials of the version that carries the label
Probe(st, stage, db) ==
  LET r == getSecretJson(st, stage)
  IN IF r.err # "ok" THEN r.err ELSE Connect(ClientOf(r.json), db, "none")

\* the versions whose present password a successful setSecret has applied: the
\* pending version joins when setSecret succeeds, and a version leaves when
\* its SecretString is written again
Applied(step, token, o) ==
  IF step = "setSecret" /\ o.result = "ok" THEN applied \cup Holders(store, "AWSPENDING")
  ELSE IF o.store[token].str # store[token].str THEN applied \ {token}
  ELSE applied

NextRun(step, token, d) ==
  IF step = "createSecret" /\ Undisturbed(d) /\ Holders(store, "AWSPENDING") = {}
       /\ Probe(store, "AWSCURRENT", dbPassword) = "ok"
  THEN [n |-> 1, token |-> token, old |-> PasswordOf(store, "AWSCURRENT")]
  ELSE IF run.n \in 1..3 /\ Undisturbed(d) /\ token = run.token /\ step = Order[run.n + 1]
  THEN [run EXCEPT !.n = @ + 1]
  ELSE NoRun

\* no call of generateSecurePassword is being followed
NotGenerating ==
  [length |-> 0, picks |-> <<>>, randomIndexes |-> <<>>, swaps |-> <<>>,
   err |-> "none", password |-> <<>>]

Rotation ==
  /\ store = InitialStore
  /\ dbPassword = OldPassword
  /\ event = [step |-> "none", token |-> "none", disturbance |-> "none", clean |-> FALSE]
  /\ ret = [result |-> "none", storeCalls |-> 0, storeWrites |-> 0, opened |-> 0,
            closed |-> 0, queries |-> 0, generated |-> Undefined]
  /\ pre = [current |-> {InitialVersion}, pending |-> {}, storeSame |-> TRUE,
            dbSame |-> TRUE, again |-> FALSE, currentOk |-> TRUE, pendingOk |-> FALSE,
            strSame |-> TRUE, currentSame |-> TRUE]
  /\ applied = {}
  /\ run = NoRun

Init == Rotation /\ gen = NotGenerating

\* one invocation of the handler, from the event to its return or its cancellation
Invoke(step, token, newPassword, d) ==
  \E o \in {handler(step, token, newPassword, d.fault, d.cut, Current)} :
     /\ store' = o.store
     /\ dbPassword' = o.db
     /\ event' = [step |-> step, token |-> token, disturbance |-> DisturbanceName(d),
                  clean |-> IF Undisturbed(d) THEN o.result = "ok"
                            ELSE handler(step, token, newPassword, "none", MaxSteps,
                                         Current).result = "ok"]
     /\ ret' = [result |-> o.result, storeCalls |-> o.storeCalls,
                storeWrites |-> o.storeWrites, opened |-> o.opened,
                closed |-> o.closed, queries |-> o.queries,
                generated |-> IF step = "createSecret" /\ o.result = "ok"
                              THEN newPassword ELSE Undefined]
     /\ pre' = [current |-> Holders(store, "AWSCURRENT"),
                pending |-> Holders(store, "AWSPENDING"),
                storeSame |-> o.store = store,
                dbSame |-> o.db = dbPassword,
                again |-> event.step = step /\ event.token = token /\ ret.result = "ok",
                currentOk |-> Probe(store, "AWSCURRENT", dbPassword) = "ok",
                pendingOk |-> Probe(store, "AWSPENDING", dbPassword) = "ok",
                strSame |-> \A v \in VersionIds :
                              store[v].exists => o.store[v].str = store[v].str,
                currentSame |-> \A v \in Holders(store, "AWSCURRENT") :
                                  /\ v \in Holders(o.store, "AWSCURRENT")
                                  /\ o.store[v].str = store[v].str]
     /\ applied' = Applied(step, token, o)
     /\ UNCHANGED gen

CreateSecret ==
  \E token \in Tokens, newPassword \in Passwords, d \in Disturbances("createSecret") :
    /\ Invoke("createSecret", token, newPassword, d)
    /\ run' = NextRun("createSecret", token, d)

SetSecret ==
  \E token \in Tokens, d \in Disturbances("setSecret") :
    /\ Invoke("setSecret", token, Undefined, d)
    /\ run' = NextRun("setSecret", token, d)

TestSecret ==
  \E token \in Tokens, d \in Disturbances("testSecret") :
    /\ Invoke("testSecret", token, Undefined, d)
    /\ run' = NextRun("testSecret", token, d)

FinishSecret ==
  \E token \in Tokens, d \in Disturbances("finishSecret") :
    /\ Invoke("finishSecret", token, Undefined, d)
    /\ run' = NextRun("finishSecret", token, d)

UnknownStep ==
  \E step \in OtherSteps, token \in Tokens :
    /\ Invoke(step, token, Undefined, [fault |-> "none", cut |-> MaxSteps])
    /\ run' = NoRun

Next == CreateSecret \/ SetSecret \/ TestSecret \/ FinishSecret \/ UnknownStep

Spec == Init /\ [][Next]_vars

\* ------------------------------------- generateSecurePassword on its own
\* the draws a call with this length consumes
DrawsOf(length) ==
  IF length < MinLength
  THEN {[picks |-> <<>>, randomIndexes |-> <<>>, swaps |-> <<>>]}
  ELSE [picks : [1..4 -> Rands], randomIndexes : [1..(length - 4) -> Rands],
        swaps : [1..(length - 1) -> Rands]]

GenInit ==
  /\ Rotation
  /\ \E length \in Lengths : \E draws \in DrawsOf(length) :
        gen = [length |-> length, picks |-> draws.picks,
               randomIndexes |-> draws.randomIndexes, swaps |-> draws.swaps,
               err |-> "none", password |-> <<>>]

Generate ==
  /\ gen.err = "none"
  /\ \E out \in {generateSecurePassword(gen.length, gen.picks, gen.randomIndexes, gen.swaps)} :
        gen' = [gen EXCEPT !.err = out.err, !.password = out.password]
  /\ UNCHANGED <<store, dbPassword, event, ret, pre, applied, run>>

GenNext == Generate
GenSpec == GenInit /\ [][GenNext]_vars

\* ------------------------------------------------------------ the claims

\* C1: in every reachable state the password of the version labeled
\* AWSCURRENT is the password the database accepts for that record's user.
C1Claim == PasswordOf(store, "AWSCURRENT") = dbPassword

\* C2: AWSCURRENT is on the version of a request token only after a
\* successful setSecret has applied that version's password to the database.
C2Claim == \A t \in Holders(store, "AWSCURRENT") : t = InitialVersion \/ t \in applied

\* C3: in every reachable state exactly one version holds AWSCURRENT and at
\* most one version holds AWSPENDING.
C3Labels ==
  /\ Cardinality(Holders(store, "AWSCURRENT")) = 1
  /\ Cardinality(Holders(store, "AWSPENDING")) <= 1

\* a createSecret with a new token succeeded while an older candidate was pending
C3Witness ==
  /\ event.step = "createSecret" /\ ret.result = "ok"
  /\ pre.pending # {} /\ event.token \notin pre.pending

\* C4: from a state where AWSCURRENT is accepted by the database and nothing
\* is pending, an undisturbed create, set, test, finish with one token
\* succeeds at every step and ends with exactly one AWSCURRENT version, the
\* token's, whose password differs from the old one and passes a probe.
C4Rotation ==
  run.n > 0 =>
    /\ ret.result = "ok"
    /\ run.n = 4 =>
         /\ Holders(store, "AWSCURRENT") = {run.token}
         /\ PasswordOf(store, "AWSCURRENT") # run.old
         /\ Probe(store, "AWSCURRENT", dbPassword) = "ok"

\* the fourth step of such a sequence has returned
C4Witness == run.n = 4 /\ event.step = "finishSecret" /\ ret.result = "ok"

\* C5: after a finishSecret that returns success no version holds AWSPENDING.
C5Claim ==
  (event.step = "finishSecret" /\ ret.result = "ok") => Holders(store, "AWSPENDING") = {}

\* C6: a createSecret delivered again for the token whose version is already
\* the pending candidate succeeds and leaves the store as it was.
C6Claim ==
  (event.step = "createSecret" /\ event.disturbance = "none" /\ event.token \in pre.pending)
    => (ret.result = "ok" /\ pre.storeSame)

\* C7: a setSecret delivered again after a setSecret for the same event has
\* succeeded succeeds too, and leaves the database password and the store as
\* they were.
C7Claim ==
  (event.step = "setSecret" /\ event.disturbance = "none" /\ pre.again)
    => (ret.result = "ok" /\ pre.storeSame /\ pre.dbSame)

Retry(newPassword) ==
  handler(event.step, event.token, newPassword, "none", MaxSteps, Current)

\* the last invocation would have succeeded, was cancelled, and every
\* re-delivery of its event fails and leaves the state as it is
Stuck ==
  /\ ret.result = "cancelled" /\ event.clean
  /\ \A p \in Passwords :
       /\ Retry(p).result # "ok"
       /\ Retry(p).store = store
       /\ Retry(p).db = dbPassword

\* C9: after a cancellation at any point of a step that would have succeeded,
\* re-delivering the event can succeed: no state is reached from which every
\* further invocation of that step fails.
C9Claim == ~Stuck

\* C10: setSecret invoked while no version holds AWSPENDING fails with
\* NotFound, opens no database session and changes neither the store nor the
\* database password.
C10SetWithoutPending ==
  (event.step = "setSecret" /\ event.disturbance # "cancelled" /\ pre.pending = {})
    => /\ ret.result = "NotFound"
       /\ ret.opened = 0
       /\ pre.storeSame /\ pre.dbSame

\* a setSecret has failed for want of a pending version
C10Witness ==
  /\ event.step = "setSecret" /\ event.disturbance = "none"
  /\ pre.pending = {} /\ ret.result = "NotFound"

\* C11: testSecret invoked while the database does not hold the password of
\* the AWSPENDING version fails with an authentication error, changes neither
\* the store nor the database password, and the credentials of AWSCURRENT are
\* accepted by the database before and after it.
C11Claim ==
  (event.step = "testSecret" /\ event.disturbance = "none"
     /\ pre.pending # {} /\ ~pre.pendingOk)
    => /\ ret.result = "AuthenticationError"
       /\ pre.storeSame /\ pre.dbSame
       /\ pre.currentOk
       /\ Probe(store, "AWSCURRENT", dbPassword) = "ok"

\* C12: an invocation of setSecret or testSecret that returns, with success or
\* with a failure of the connect, the statement or the probe, has closed every
\* session it opened; an invocation opens at most one session, and createSecret
\* and finishSecret open none.
C12Sessions ==
  /\ ret.opened <= 1
  /\ ret.result # "cancelled" => ret.closed = ret.opened
  /\ event.step \notin {"setSecret", "testSecret"} => ret.opened = 0

\* a probe or statement failed inside an open session, and the session was closed
C12Witness ==
  /\ event.step \in {"setSecret", "testSecret"}
  /\ ret.result = "StatementError"
  /\ ret.opened = 1 /\ ret.closed = 1

\* C13: an event whose Step is none of createSecret, setSecret, testSecret and
\* finishSecret fails with the "Unknown step" error, calls neither the store
\* nor the database, and leaves the store and the database password unchanged.
C13UnknownStep ==
  (event.step # "none" /\ event.step \notin Steps)
    => /\ ret.result = "UnknownStep"
       /\ ret.storeCalls = 0 /\ ret.storeWrites = 0
       /\ ret.opened = 0 /\ ret.queries = 0
       /\ pre.storeSame /\ pre.dbSame

\* an unknown step was delivered while a version was pending
C13Witness ==
  /\ event.step \in OtherSteps
  /\ ret.result = "UnknownStep"
  /\ pre.pending # {}
  /\ event.token \in pre.pending

\* C14: the first call of an invocation that fails ends the invocation with that
\* failure: no later call is made, the failed call is not repeated, and the
\* store and the database password are left as they were.  A missing AWSPENDING
\* version, a refused or rejected connect, a failed statement or probe and a
\* rejected put are all reported as failures; setSecret and testSecret succeed
\* only when none of their calls failed.
C14Returned == event.disturbance # "cancelled"
C14DbStep == event.step \in {"setSecret", "testSecret"}
C14LoginOk == IF event.step = "setSecret" THEN pre.currentOk ELSE pre.pendingOk
C14Reads == IF event.step = "setSecret" THEN 2 ELSE 1
CharsOf(charset) == {charset[k] : k \in DOMAIN charset}
Count(chars, c) == Cardinality({k \in DOMAIN chars : chars[k] = c})
Has(password, charset) == \E k \in DOMAIN password : password[k] \in CharsOf(charset)
Buffer == guaranteedChars(gen.picks) \o remainingChars(gen.randomIndexes)
C15Generate ==
  gen.err # "none"
    => IF gen.length < 4
       THEN gen.err = "InvalidLength" /\ gen.password = <<>>
       ELSE /\ gen.err = "ok"
            /\ Len(gen.password) = gen.length
            /\ Has(gen.password, upper) /\ Has(gen.password, lower)
            /\ Has(gen.password, digits) /\ Has(gen.password, symbols)
            /\ \A c \in CharsOf(allChars) : Count(gen.password, c) = Count(Buffer, c)

\* a password longer than the four guaranteed characters was returned, and the
\* shuffle moved every guaranteed character off the place it was drawn into
C15Witness ==
  /\ gen.err = "ok"
  /\ gen.length > 4
  /\ \A k \in 1..4 : gen.password[k] # Buffer[k]

\* C16: finishSecret invoked with the token of the version that already holds
\* AWSCURRENT returns success and issues no write to the store.
C16Claim ==
  (event.step = "finishSecret" /\ event.disturbance = "none"
     /\ event.token \in pre.current)
    => ret.result = "ok" /\ ret.storeWrites = 0

\* C17: whenever finishSecret changes the store, the version that holds
\* AWSCURRENT afterwards is the version that held AWSPENDING before, no
\* SecretString has changed, and the version that held AWSCURRENT before has
\* lost that label and nothing else.
C17Claim ==
  (event.step = "finishSecret" /\ ~pre.storeSame)
    => /\ Holders(store, "AWSCURRENT") = pre.pending
       /\ pre.strSame
       /\ \A v \in pre.current :
            /\ store[v].exists
            /\ "AWSCURRENT" \notin store[v].stages
            /\ ("AWSPENDING" \in store[v].stages) = (v \in pre.pending)

\* C18 as stated: every invocation performs at most one call of the credential
\* store and at most one database round trip.
C18Claim == ret.storeCalls <= 1 /\ ret.queries <= 1

\* C18: every invocation performs at most two calls of the credential store,
\* at most one of them a write, and, inside at most one session, at most one
\* database statement; testSecret makes one store call, and createSecret and
\* finishSecret send no statement.
C18Calls ==
  /\ ret.storeCalls <= 2
  /\ ret.storeWrites <= 1
  /\ ret.opened <= 1
  /\ ret.queries <= 1
  /\ event.step = "testSecret" => ret.storeCalls <= 1
  /\ event.step \in {"createSecret", "finishSecret"} => ret.queries = 0

\* an invocation that made two store calls: the read and the put of
\* createSecret or finishSecret, or the two reads of setSecret
C18Witness == ret.storeCalls = 2 /\ ret.result = "ok"

\* C19: a successful createSecret with token t leaves the version t labelled
\* AWSPENDING with the username, host, port and dbname of the AWSCURRENT version
\* and the newly generated password, and leaves the AWSCURRENT label, the
\* content of the AWSCURRENT version and the database password unchanged; with
\* no AWSCURRENT version it fails (NotFound) and writes nothing.
C19Claim ==
  /\ (event.step = "createSecret" /\ ret.result = "ok")
       => /\ event.token \in Holders(store, "AWSPENDING")
          /\ LET created == JSONparse(store[event.token].str)
                 current == getSecretJson(store, "AWSCURRENT").json
             IN /\ \A k \in FieldSet \ {"password"} : created[k] = current[k]
                /\ created.password = ret.generated
          /\ Holders(store, "AWSCURRENT") = pre.current
          /\ pre.currentSame
          /\ pre.dbSame
  /\ (event.step = "createSecret" /\ event.disturbance = "none" /\ pre.current = {})
       => ret.result = "NotFound" /\ ret.storeWrites = 0 /\ pre.storeSame

\* C20: from the same store and database state and under the same disturbance,
\* setSecret ends the same way for every token (same result, same calls, same
\* store, same database password), and so does testSecret.  A setSecret
\* delivered with the token of another version than the pending one applies
\* the password of the version that holds AWSPENDING.
C20TokenBlind ==
  /\ \A t1 \in Tokens, t2 \in Tokens :
       /\ \A d \in Disturbances("setSecret") :
            setSecret(t1, d.fault, d.cut, Current) = setSecret(t2, d.fault, d.cut, Current)
       /\ \A d \in Disturbances("testSecret") :
            testSecret(t1, d.fault, d.cut, Current) = testSecret(t2, d.fault, d.cut, Current)
  /\ (event.step = "setSecret" /\ ret.result = "ok")
       => dbPassword = PasswordOf(store, "AWSPENDING")

\* a setSecret whose token names a version that does not hold AWSPENDING has
\* applied the password of the version that does
C20Witness ==
  /\ event.step = "setSecret"
  /\ ret.result = "ok"
  /\ event.token \notin pre.pending
  /\ ~pre.dbSame
  /\ dbPassword = PasswordOf(store, "AWSPENDING")

====
